---- MODULE Spec2Model ----
(***************************************************************************)
(* A model of the AI news curator: the two Streamlit applications          *)
(* (app_realtime.py, "Plan A", batch selection; app2.py, "Plan B", filter  *)
(* mode), the two RSS pool builders and the two oracle adapters.           *)
(*                                                                         *)
(* Text is a sequence of one-character strings, so that the string         *)
(* operations of the code (strip, split, startswith, replace, lower, in,   *)
(* slicing) are computed as Python computes them.                          *)
(***************************************************************************)
EXTENDS Integers, Sequences, FiniteSets, TLC

\* ------------------------------------------------------------------ bounds

\* the longest oracle response enumerated block by block
MaxBlocks == 2

\* the most entries of a feed enumerated entry by entry
MaxEntries == 2

\* the most articles of a pool classified under every yes/no marking
MaxMarked == 3

\* the options of the persona selectbox that are tried
NumPersonas == 2

\* the highest position of the count slider that is tried
MaxCount == 5

\* ------------------------------------------------------- Python str methods

Min(a, b) == IF a <= b THEN a ELSE b

Max(a, b) == IF a >= b THEN a ELSE b

\* s[:n]: the first n elements, and for a negative n all but the last -n
Take(s, n) ==
    IF n >= 0 THEN SubSeq(s, 1, Min(n, Len(s)))
    ELSE SubSeq(s, 1, Max(0, Len(s) + n))

\* s[n:] for n >= 0 (n is a count of dropped elements)
Drop(s, n) == SubSeq(s, n + 1, Len(s))

\* the characters str.strip() removes
IsSpace(c) == c \in {" ", "\n", "\t", "\r"}

RECURSIVE LStrip(_)
LStrip(s) ==
    IF s # <<>> /\ IsSpace(Head(s)) THEN LStrip(Tail(s)) ELSE s

RECURSIVE RStrip(_)
RStrip(s) ==
    IF s # <<>> /\ IsSpace(s[Len(s)]) THEN RStrip(SubSeq(s, 1, Len(s) - 1)) ELSE s

\* str.strip()
Strip(s) == RStrip(LStrip(s))

\* str.startswith(p)
StartsWith(s, p) == Len(s) >= Len(p) /\ SubSeq(s, 1, Len(p)) = p

\* the least element of a non-empty set of integers
Least(S) == CHOOSE j \in S : \A k \in S : j <= k

\* str.find(p, i) with 1-based positions: the least j >= i where p occurs, 0 if none
Find(s, p, i) ==
    LET at == {j \in i..(Len(s) - Len(p) + 1) : SubSeq(s, j, j + Len(p) - 1) = p}
    IN  IF at = {} THEN 0 ELSE Least(at)

\* p in s
Contains(s, p) == Find(s, p, 1) # 0

\* str.split(sep), sep non-empty: the pieces between the non-overlapping
\* occurrences of sep found left to right; always at least one piece
RECURSIVE Split(_, _)
Split(s, sep) ==
    LET j == Find(s, sep, 1)
    IN  IF j = 0 THEN <<s>>
        ELSE <<SubSeq(s, 1, j - 1)>> \o Split(Drop(s, j + Len(sep) - 1), sep)

\* str.replace(old, ""): every non-overlapping occurrence of old removed
RECURSIVE Remove(_, _)
Remove(s, old) ==
    LET j == Find(s, old, 1)
    IN  IF j = 0 THEN s
        ELSE SubSeq(s, 1, j - 1) \o Remove(Drop(s, j + Len(old) - 1), old)

UPPERCASE ==
    <<"A", "B", "C", "D", "E", "F", "G", "H", "I", "J", "K", "L", "M",
      "N", "O", "P", "Q", "R", "S", "T", "U", "V", "W", "X", "Y", "Z">>

LOWERCASE ==
    <<"a", "b", "c", "d", "e", "f", "g", "h", "i", "j", "k", "l", "m",
      "n", "o", "p", "q", "r", "s", "t", "u", "v", "w", "x", "y", "z">>

LowerChar(c) ==
    IF \E i \in 1..26 : UPPERCASE[i] = c
    THEN LOWERCASE[CHOOSE i \in 1..26 : UPPERCASE[i] = c]
    ELSE c

\* str.lower()
Lower(s) == [i \in 1..Len(s) |-> LowerChar(s[i])]

\* "sep".join(parts)
RECURSIVE Join(_, _)
Join(parts, sep) ==
    IF parts = <<>> THEN <<>>
    ELSE IF Len(parts) = 1 THEN parts[1]
    ELSE parts[1] \o sep \o Join(Tail(parts), sep)

\* ------------------------------------------------------------ string literals

NL == <<"\n">>
SEPARATOR == <<"-", "-", "-">>
TITLE_LABEL == <<"T", "I", "T", "L", "E", ":">>
SOURCE_LABEL == <<"S", "O", "U", "R", "C", "E", ":">>
RELEVANCE_LABEL == <<"R", "E", "L", "E", "V", "A", "N", "C", "E", ":">>
LINK_LABEL == <<"L", "I", "N", "K", ":">>

\* ---------------------------------------------------------- feeds (external)

\* A value of a raw feed entry: Python text, or None.
Str(s) == [py |-> "str", s |-> s]
PyNone == [py |-> "None", s |-> <<>>]

\* entry.get(key, default) of a raw entry, a mapping from the keys it has
EntryGet(entry, key, default) ==
    IF key \in DOMAIN entry THEN entry[key] ELSE Str(default)

\* BeautifulSoup(markup, "html.parser").get_text() on the text of the model:
\* a "<" that opens a tag (a letter or "/" follows it) and is closed by a later
\* ">" is dropped up to that ">"; any other character is text, and so is a
\* "<" whose tag never closes (html.parser hands it on as data at the end)
IsTagStart(s, i) ==
    /\ s[i] = "<"
    /\ i < Len(s)
    /\ \/ s[i + 1] = "/"
       \/ \E k \in 1..26 : s[i + 1] \in {UPPERCASE[k], LOWERCASE[k]}
    /\ \E j \in (i + 1)..Len(s) : s[j] = ">"

RECURSIVE GetTextFrom(_, _)
GetTextFrom(s, i) ==
    LET starts == {j \in i..Len(s) : IsTagStart(s, j)}
    IN  IF starts = {} THEN SubSeq(s, i, Len(s))
        ELSE LET open == Least(starts)
             IN  SubSeq(s, i, open - 1)
                 \o GetTextFrom(s, Find(s, <<">">>, open + 1) + 1)

get_text(markup) == GetTextFrom(markup, 1)

\* ----------------------------------------------- Plan A configuration

\* AI_NEWS_SOURCES, in insertion order
AI_NEWS_SOURCES ==
    << <<"a", "r", "X", "i", "v", " ", "A", "I">>,
       <<"a", "r", "X", "i", "v", " ", "M", "L">>,
       <<"G", "o", "o", "g", "l", "e", " ", "A", "I", " ", "B", "l", "o", "g">>,
       <<"O", "p", "e", "n", "A", "I", " ", "B", "l", "o", "g">>,
       <<"D", "e", "e", "p", "M", "i", "n", "d", " ", "B", "l", "o", "g">>,
       <<"H", "u", "g", "g", "i", "n", "g", " ", "F", "a", "c", "e", " ", "B", "l", "o", "g">>,
       <<"T", "e", "c", "h", "C", "r", "u", "n", "c", "h", " ", "A", "I">> >>

\* RSS_FEEDS of utils2, in insertion order
RSS_FEEDS ==
    << <<"H", "u", "g", "g", "i", "n", "g", "F", "a", "c", "e", " ", "B", "l", "o", "g">>,
       <<"O", "p", "e", "n", "A", "I", " ", "B", "l", "o", "g">>,
       <<"D", "e", "e", "p", "M", "i", "n", "d", " ", "B", "l", "o", "g">>,
       <<"A", "I", " ", "W", "e", "e", "k", "l", "y">>,
       <<"P", "h", "y", "s", ".", "o", "r", "g", " ", "A", "I">>,
       <<"G", "o", "o", "g", "l", "e", " ", "D", "e", "v", "e", "l", "o", "p", "e", "r", "s">> >>

\* feed.entries[:5]
EntriesPerSource == 5

\* [:300] on the summary
SummaryLimit == 300

NO_TITLE == <<"N", "o", " ", "t", "i", "t", "l", "e">>
NO_SUMMARY == <<"N", "o", " ", "s", "u", "m", "m", "a", "r", "y">>
RECENTLY == <<"R", "e", "c", "e", "n", "t", "l", "y">>
UNKNOWN == <<"U", "n", "k", "n", "o", "w", "n">>
AI_RESEARCH == <<"A", "I", " ", "R", "e", "s", "e", "a", "r", "c", "h">>
AI_NEWS == <<"A", "I", " ", "N", "e", "w", "s">>
ARXIV == <<"a", "r", "x", "i", "v">>

\* ------------------------------------------------------------ pool builders

\* The article dict built for one entry by fetch_real_ai_news. Slicing the
\* summary raises TypeError when the entry's summary is None.
ArticleRT(entry, source_name) ==
    LET summary == EntryGet(entry, "summary", <<>>)
    IN  [raised |-> summary.py # "str",
         article |->
            [title |-> EntryGet(entry, "title", NO_TITLE).s,
             link |-> EntryGet(entry, "link", <<>>).s,
             summary |-> get_text(Take(summary.s, SummaryLimit)),
             published |-> EntryGet(entry, "published", RECENTLY).s,
             source |-> source_name,
             domain |-> IF Contains(Lower(source_name), ARXIV)
                        THEN AI_RESEARCH ELSE AI_NEWS]]

\* The article dict built for one entry by fetch_news_from_rss.
ArticleRss(entry, source_name) ==
    LET summary == EntryGet(entry, "summary", NO_SUMMARY)
    IN  [raised |-> summary.py # "str",
         article |->
            [title |-> EntryGet(entry, "title", NO_TITLE).s,
             summary |-> Take(summary.s, SummaryLimit),
             link |-> EntryGet(entry, "link", <<"#">>).s,
             source |-> source_name,
             published |-> EntryGet(entry, "published", UNKNOWN).s]]

\* The inner loop of fetch_real_ai_news over feed.entries[:5]: each article is
\* appended to all_articles as soon as it is built; an exception leaves the
\* loop (and the try block) with the articles appended so far still in the list.
RECURSIVE AppendEntriesRT(_, _, _)
AppendEntriesRT(all_articles, entries, source_name) ==
    IF entries = <<>> THEN all_articles
    ELSE LET r == ArticleRT(Head(entries), source_name)
         IN  IF r.raised THEN all_articles
             ELSE AppendEntriesRT(Append(all_articles, r.article), Tail(entries),
                                  source_name)

\* One iteration of the loop over AI_NEWS_SOURCES: feedparser.parse may raise
\* (caught: warning, continue), else its first 5 entries are processed.
FetchSourceRT(all_articles, feed, source_name) ==
    IF feed.raises THEN all_articles
    ELSE AppendEntriesRT(all_articles, Take(feed.entries, EntriesPerSource),
                         source_name)

RECURSIVE FetchFromRT(_, _, _)
FetchFromRT(all_articles, fd, i) ==
    IF i > Len(AI_NEWS_SOURCES) THEN all_articles
    ELSE FetchFromRT(FetchSourceRT(all_articles, fd[i], AI_NEWS_SOURCES[i]),
                     fd, i + 1)

\* fetch_real_ai_news(), the feeds being fd (one per source, in order)
fetch_real_ai_news(fd) == FetchFromRT(<<>>, fd, 1)

\* The inner loop of fetch_news_from_rss, of the same shape.
RECURSIVE AppendEntriesRss(_, _, _)
AppendEntriesRss(all_articles, entries, source_name) ==
    IF entries = <<>> THEN all_articles
    ELSE LET r == ArticleRss(Head(entries), source_name)
         IN  IF r.raised THEN all_articles
             ELSE AppendEntriesRss(Append(all_articles, r.article), Tail(entries),
                                   source_name)

\* One iteration of the loop over RSS_FEEDS.
FetchSourceRss(all_articles, feed, source_name) ==
    IF feed.raises THEN all_articles
    ELSE AppendEntriesRss(all_articles, Take(feed.entries, EntriesPerSource),
                          source_name)

RECURSIVE FetchFromRss(_, _, _)
FetchFromRss(all_articles, fd, i) ==
    IF i > Len(RSS_FEEDS) THEN all_articles
    ELSE FetchFromRss(FetchSourceRss(all_articles, fd[i], RSS_FEEDS[i]),
                      fd, i + 1)

\* fetch_news_from_rss(), the feeds being fd
fetch_news_from_rss(fd) == FetchFromRss(<<>>, fd, 1)

\* ------------------------------------------------ Plan A: the oracle adapter

ERROR_WORD == <<"e", "r", "r", "o", "r">>

\* ports = [11435, 11434]
PORTS == <<11435, 11434>>

\* RunLlmFrom going on to the next port after a timeout.
RECURSIVE RunLlmRetryAfterTimeout(_, _)
RunLlmRetryAfterTimeout(ports, i) ==
    IF i > Len(ports) THEN [output |-> <<>>, tried |-> <<>>]
    ELSE LET b == ports[i]
             next == RunLlmRetryAfterTimeout(ports, i + 1)
             after == [next EXCEPT !.tried = <<PORTS[i]>> \o @]
         IN  CASE b.kind \in {"raises", "timeout"} -> after
               [] OTHER ->
                    IF b.err # <<>> /\ Contains(Lower(b.err), ERROR_WORD)
                    THEN after
                    ELSE [output |-> b.out, tried |-> <<PORTS[i]>>]

\* The loop of run_llm_model over ports = [11435, 11434], from the i-th port on:
\* the value returned and the ports "ollama run" was started on, in order.
\* What "ollama run" does on a port is the port's behaviour b:
\*   b.kind = "raises"  : Popen (or communicate) raises; caught, next port
\*   b.kind = "timeout" : communicate exceeds 300 s; the process is killed and
\*                        run_llm_model returns ""
\*   b.kind = "exit"    : the process ends with stdout b.out and stderr b.err
RECURSIVE RunLlmFrom(_, _)
RunLlmFrom(ports, i) ==
    IF i > Len(ports) THEN [output |-> <<>>, tried |-> <<>>]
    ELSE LET b == ports[i]
             next == RunLlmFrom(ports, i + 1)
             after == [next EXCEPT !.tried = <<PORTS[i]>> \o @]
         IN  CASE b.kind = "raises" -> after
               [] b.kind = "timeout" -> [output |-> <<>>, tried |-> <<PORTS[i]>>]
               [] OTHER ->
                    IF b.err # <<>> /\ Contains(Lower(b.err), ERROR_WORD)
                    THEN after
                    ELSE [output |-> b.out, tried |-> <<PORTS[i]>>]

\* run_llm_model(prompt_text), the two ports behaving as ports[1], ports[2]
run_llm_model(ports) == RunLlmFrom(ports, 1).output

\* The elif chain over one line of a section.
ParseLine(item, line) ==
    CASE StartsWith(line, TITLE_LABEL) ->
            [item EXCEPT !.title = Strip(Remove(line, TITLE_LABEL))]
      [] StartsWith(line, SOURCE_LABEL) ->
            [item EXCEPT !.source = Strip(Remove(line, SOURCE_LABEL))]
      [] StartsWith(line, RELEVANCE_LABEL) ->
            [item EXCEPT !.relevance = Strip(Remove(line, RELEVANCE_LABEL))]
      [] StartsWith(line, LINK_LABEL) ->
            [item EXCEPT !.link = Strip(Remove(line, LINK_LABEL))]
      [] OTHER -> item

RECURSIVE ParseLines(_, _)
ParseLines(item, lines) ==
    IF lines = <<>> THEN item
    ELSE ParseLines(ParseLine(item, Head(lines)), Tail(lines))

EmptyItem == [title |-> <<>>, source |-> <<>>, relevance |-> <<>>, link |-> <<>>]

\* The item built from one non-blank section.
ParseSection(section) == ParseLines(EmptyItem, Split(Strip(section), NL))

\* Accepted asking for the title only.
AcceptedByTitle(item) == item.title # <<>>

\* if item["title"] and item["link"]
Accepted(item) == item.title # <<>> /\ item.link # <<>>

\* The loop over the sections, appending the accepted items to curated.
RECURSIVE ParseSections(_)
ParseSections(sections) ==
    IF sections = <<>> THEN <<>>
    ELSE LET section == Head(sections)
             rest == ParseSections(Tail(sections))
         IN  IF Strip(section) = <<>> THEN rest
             ELSE IF Accepted(ParseSection(section))
                  THEN <<ParseSection(section)>> \o rest
                  ELSE rest

\* curated, once the loop over response.split("---") is done
ParseResponse(response) == ParseSections(Split(response, SEPARATOR))

\* CurateFromResponse without the fallback on an answer with no accepted block.
CurateNoFallback(articles, num_updates, response) ==
    IF response = <<>> THEN Take(articles, num_updates)
    ELSE Take(ParseResponse(response), num_updates)

\* CurateFromResponse returning the accepted blocks latest first.
CurateNewestFirst(articles, num_updates, response) ==
    IF response = <<>> THEN Take(articles, num_updates)
    ELSE LET curated == ParseResponse(response)
             reversed == [i \in 1..Len(curated) |-> curated[Len(curated) + 1 - i]]
         IN  IF curated # <<>> THEN Take(reversed, num_updates)
             ELSE Take(articles, num_updates)

\* The tail of curate_articles_for_persona, from the oracle's response on.
CurateFromResponse(articles, num_updates, response) ==
    IF response = <<>> THEN Take(articles, num_updates)
    ELSE LET curated == ParseResponse(response)
         IN  IF curated # <<>> THEN Take(curated, num_updates)
             ELSE Take(articles, num_updates)

\* curate_articles_for_persona(articles, persona, num_updates). The prompt
\* names the persona, num_updates and articles[:15]; the oracle of the model
\* answers by its ports' behaviour, whatever the prompt says.
curate_articles_for_persona(articles, persona, num_updates, ports) ==
    IF articles = <<>> THEN <<>>
    ELSE CurateFromResponse(articles, num_updates, run_llm_model(ports))

\* The oracle requests curate_articles_for_persona makes, each as the ports
\* it was tried on: none for an empty pool, else the one call of
\* run_llm_model. No argument is looked at before that call but articles.
CurateCalls(articles, persona, num_updates, ports) ==
    IF articles = <<>> THEN <<>>
    ELSE <<RunLlmFrom(ports, 1).tried>>

\* ------------------------------------------------ Plan B: the oracle adapter

\* the port of "http://localhost:11434/api/generate"
CLASSIFY_PORT == 11434

\* The POSTs of one call of classify_with_mistral, as the ports posted to:
\* the one requests.post, whatever comes of it.
ClassifyPosts(reply) == <<CLASSIFY_PORT>>

YES == <<"y", "e", "s">>
RELEVANT == <<"r", "e", "l", "e", "v", "a", "n", "t">>

\* classify_with_mistral comparing the response text as it came, not lowered.
ClassifyCaseSensitive(article_title, article_summary, persona, reply) ==
    /\ reply.kind = "http"
    /\ reply.status = 200
    /\ reply.body.json = "object"
    /\ LET value == IF "response" \in DOMAIN reply.body.fields
                    THEN reply.body.fields["response"]
                    ELSE [py |-> "str", s |-> <<>>]
       IN  /\ value.py = "str"
           /\ \/ Find(value.s, <<"y", "e", "s">>, 1) # 0
              \/ Find(value.s, <<"r", "e", "l", "e", "v", "a", "n", "t">>, 1) # 0

\* classify_with_mistral(title, summary, persona), the POST being answered by
\* reply:
\*   reply.kind = "exception" : requests.post raises (connection refused,
\*                              timeout after 30 s)
\*   reply.kind = "http"      : a response with reply.status and a body;
\*       reply.body.json = "invalid" : response.json() raises
\*       reply.body.json = "array"   : the JSON is no object, result.get raises
\*       reply.body.json = "object"  : an object with the keys of
\*                                     reply.body.fields
\* Every exception is caught and gives False.
classify_with_mistral(article_title, article_summary, persona, reply) ==
    /\ reply.kind = "http"
    /\ reply.status = 200
    /\ reply.body.json = "object"
    /\ LET value == EntryGet(reply.body.fields, "response", <<>>)
       IN  /\ value.py = "str"
           /\ LET response_text == Strip(Lower(value.s))
              IN  Contains(response_text, YES) \/ Contains(response_text, RELEVANT)

\* ------------------------------------------------------------ the two apps

\* PERSONAS of app_realtime.py and the keys of PERSONAS of app2.py
PERSONAS_A ==
    <<"Developers and Programmers", "Investors and Venture Capitalists",
      "Students and Researchers", "Founders and Business Leaders",
      "Healthcare Professionals", "Designers and Creative Professionals",
      "Journalists and Media Professionals",
      "Marketing and Advertising Professionals">>

PERSONAS_B ==
    <<"Developers and Programmers", "Investors and VCs",
      "Students and Researchers">>

\* the sliders: num_updates of app_realtime.py, num_articles of app2.py
SliderMinA == 3
SliderMaxA == 8
SliderDefaultA == 5
SliderMinB == 1
SliderMaxB == 8
SliderDefaultB == 3

PersonasOf(a) ==
    LET all == IF a = "A" THEN PERSONAS_A ELSE PERSONAS_B
    IN  {all[i] : i \in 1..Min(NumPersonas, Len(all))}

CountsOf(a) ==
    IF a = "A" THEN SliderMinA..Min(SliderMaxA, MaxCount)
    ELSE SliderMinB..Min(SliderMaxB, MaxCount)

VARIABLES
    app,               \* which application the session runs: "A" or "B"
    feeds,             \* what each configured source serves, in source order
    oracle,            \* how the oracle answers (see OracleA, OracleB)
    selected_persona,  \* the selectbox
    num,               \* the slider (num_updates / num_articles)
    cache,             \* the st.cache_data entry of fetch_real_ai_news
    session,           \* st.session_state of app2.py
    rendered,          \* the items handed to the presentation in the latest run
    run,               \* what the latest script run did
    probe,             \* the first curation of the session, when it is recorded
    fetched            \* the latest "Fetch & Curate" run of app2.py

vars ==
    <<app, feeds, oracle, selected_persona, num, cache, session, rendered, run,
      probe, fetched>>

NoSession == [articles |-> <<>>, persona |-> "None", relevant_articles |-> <<>>]
NoCache == [hit |-> FALSE, value |-> <<>>]
NoFetch == [persona |-> "None", kept |-> <<>>]
IdleRun ==
    [kind |-> "idle", pool |-> <<>>, persona |-> "None", k |-> 0,
     response |-> <<>>, curated |-> <<>>, marks |-> <<>>, result |-> <<>>,
     tried |-> <<>>, raised |-> FALSE]

\* The record of the first curation: probe.on says whether one is kept,
\* probe.set that it has been made, probe.others that a curation of other
\* arguments has followed it.
Probe(on) ==
    [on |-> on, set |-> FALSE, others |-> FALSE, pool |-> <<>>,
     persona |-> "None", k |-> 0, result |-> <<>>]

Recorded(pr, r) ==
    IF ~pr.on THEN pr
    ELSE IF ~pr.set
         THEN [on |-> TRUE, set |-> TRUE, others |-> FALSE, pool |-> r.pool,
               persona |-> r.persona, k |-> r.k, result |-> r.result]
    ELSE IF <<r.pool, r.persona, r.k>> # <<pr.pool, pr.persona, pr.k>>
         THEN [pr EXCEPT !.others = TRUE]
    ELSE pr

\* ---- Plan A: app_realtime.py

\* The behaviour of one port, given what the model would answer.
PortBehaviour(name, answer) ==
    CASE name = "raises" -> [kind |-> "raises", out |-> <<>>, err |-> <<>>]
      [] name = "timeout" -> [kind |-> "timeout", out |-> <<>>, err |-> <<>>]
      [] name = "answers" -> [kind |-> "exit", out |-> answer, err |-> <<>>]
      [] name = "warns" ->
            [kind |-> "exit", out |-> answer,
             err |-> <<"l", "o", "a", "d", "i", "n", "g">>]
      [] name = "errors" ->
            [kind |-> "exit", out |-> <<>>,
             err |-> <<"E", "r", "r", "o", "r", ":", " ", "x">>]
      [] OTHER -> [kind |-> "exit", out |-> <<>>, err |-> <<>>]

PortNames == {"raises", "timeout", "answers", "warns", "errors", "silent"}

\* One line of an answer: a label and a value, or free text.
LabelText(label) ==
    CASE label = "TITLE" -> TITLE_LABEL
      [] label = "SOURCE" -> SOURCE_LABEL
      [] label = "RELEVANCE" -> RELEVANCE_LABEL
      [] label = "LINK" -> LINK_LABEL
      [] OTHER -> <<>>

RenderLine(l) ==
    IF l.label = "" THEN l.value ELSE LabelText(l.label) \o <<" ">> \o l.value

RECURSIVE RenderLines(_)
RenderLines(lines) ==
    IF lines = <<>> THEN <<>>
    ELSE IF Len(lines) = 1 THEN RenderLine(lines[1])
    ELSE RenderLine(lines[1]) \o NL \o RenderLines(Tail(lines))

\* The answer in the format the prompt asks for: each block, then "---".
RECURSIVE RenderBlocks(_)
RenderBlocks(blocks) ==
    IF blocks = <<>> THEN <<>>
    ELSE RenderLines(Head(blocks)) \o NL \o SEPARATOR \o NL
         \o RenderBlocks(Tail(blocks))

\* The ports' behaviour under the oracle o = [blocks, ports].
PortsOf(o) ==
    [i \in 1..Len(o.ports) |-> PortBehaviour(o.ports[i], RenderBlocks(o.blocks))]

\* One script run of app_realtime.py with the button clicked: tab 1.
A_Curate ==
    /\ app = "A"
    /\ LET all_articles ==
               IF cache.hit THEN cache.value ELSE fetch_real_ai_news(feeds)
           curated ==
               curate_articles_for_persona(all_articles, selected_persona, num,
                                           PortsOf(oracle))
           response ==
               IF all_articles = <<>> THEN <<>> ELSE run_llm_model(PortsOf(oracle))
           r == [kind |-> IF all_articles = <<>> THEN "empty" ELSE "curate",
                 pool |-> all_articles, persona |-> selected_persona,
                 k |-> num, response |-> response,
                 curated |-> IF response = <<>> THEN <<>>
                             ELSE ParseResponse(response),
                 marks |-> <<>>, result |-> curated,
                 tried |-> CurateCalls(all_articles, selected_persona, num,
                                       PortsOf(oracle)),
                 raised |-> FALSE]
       IN  /\ cache' = [hit |-> TRUE, value |-> all_articles]
           /\ rendered' = IF all_articles = <<>> THEN <<>> ELSE curated
           /\ run' = r
           /\ probe' = Recorded(probe, r)
    /\ UNCHANGED <<app, feeds, oracle, selected_persona, num, session, fetched>>

\* A script run of app_realtime.py after the selectbox changed: no button is
\* down, tab 1 renders no article.
A_SelectPersona(p) ==
    /\ app = "A"
    /\ p # selected_persona
    /\ selected_persona' = p
    /\ rendered' = <<>>
    /\ run' = IdleRun
    /\ UNCHANGED <<app, feeds, oracle, num, cache, session, probe, fetched>>

\* A script run of app_realtime.py after the slider moved.
A_SetCount(k) ==
    /\ app = "A"
    /\ k # num
    /\ num' = k
    /\ rendered' = <<>>
    /\ run' = IdleRun
    /\ UNCHANGED <<app, feeds, oracle, selected_persona, cache, session, probe,
                   fetched>>

\* The cache entry of fetch_real_ai_news is 300 s old and is dropped.
A_CacheExpire ==
    /\ app = "A"
    /\ cache.hit
    /\ cache' = NoCache
    /\ UNCHANGED <<app, feeds, oracle, selected_persona, num, session, rendered,
                   run, probe, fetched>>

\* curate_articles_for_persona called by a caller of its own, with the pool
\* the feeds give, persona p and count k: no statement of the function raises
\* on a list of articles and an integer count, so it returns a list.
CurateCalled(p, k) ==
    /\ app = "A"
    /\ LET articles == fetch_real_ai_news(feeds)
           response ==
               IF articles = <<>> THEN <<>> ELSE run_llm_model(PortsOf(oracle))
       IN  run' = [kind |-> "call", pool |-> articles, persona |-> p, k |-> k,
                   response |-> response,
                   curated |-> IF response = <<>> THEN <<>>
                               ELSE ParseResponse(response),
                   marks |-> <<>>,
                   result |-> curate_articles_for_persona(articles, p, k,
                                                          PortsOf(oracle)),
                   tried |-> CurateCalls(articles, p, k, PortsOf(oracle)),
                   raised |-> FALSE]
    /\ UNCHANGED <<app, feeds, oracle, selected_persona, num, cache, session,
                   rendered, probe, fetched>>

\* ---- Plan B: app2.py

\* The reply of the oracle to the classification of one article: the oracle o
\* answers by persona and title, and declines a title it has no answer for.
ReplyFor(o, persona, article) ==
    IF article.title \in DOMAIN o[persona] THEN o[persona][article.title]
    ELSE [kind |-> "http", status |-> 200,
          body |-> [json |-> "object",
                    fields |-> [key \in {"response"} |-> Str(<<"n", "o">>)]]]

\* KeepRelevant putting each relevant article in front of the earlier ones.
KeepRelevantInFront(relevant_articles, articles, is_relevant) ==
    LET kept == {i \in 1..Len(articles) : is_relevant[i]}
        Nth(n) == CHOOSE i \in kept : Cardinality({j \in kept : j >= i}) = n
    IN  [n \in 1..Cardinality(kept) |-> articles[Nth(n)]] \o relevant_articles

\* The loop over the articles: relevant_articles and, for the record, the
\* outcome of each call.
RECURSIVE ClassifyAll(_, _, _)
ClassifyAll(articles, persona, o) ==
    IF articles = <<>> THEN <<>>
    ELSE <<classify_with_mistral(Head(articles).title, Head(articles).summary,
                                 persona, ReplyFor(o, persona, Head(articles)))>>
         \o ClassifyAll(Tail(articles), persona, o)

\* The POSTs of the loop over the articles, call by call.
ClassifyAllPosts(articles, persona, o) ==
    [i \in 1..Len(articles) |-> ClassifyPosts(ReplyFor(o, persona, articles[i]))]

RECURSIVE KeepRelevant(_, _, _)
KeepRelevant(relevant_articles, articles, is_relevant) ==
    IF articles = <<>> THEN relevant_articles
    ELSE KeepRelevant(IF Head(is_relevant)
                      THEN Append(relevant_articles, Head(articles))
                      ELSE relevant_articles,
                      Tail(articles), Tail(is_relevant))

\* DisplayB showing what the session holds under any persona.
DisplayAnyPersona(ss, persona, num_articles) ==
    IF ss.relevant_articles # <<>>
    THEN Take(ss.relevant_articles, num_articles)
    ELSE <<>>

\* DisplayB with the slice left out.
DisplayAllKept(ss, persona, num_articles) ==
    IF ss.relevant_articles # <<>> /\ ss.persona = persona
    THEN ss.relevant_articles
    ELSE <<>>

\* The display section at the end of every script run of app2.py.
DisplayB(ss, persona, num_articles) ==
    IF ss.relevant_articles # <<>> /\ ss.persona = persona
    THEN Take(ss.relevant_articles, num_articles)
    ELSE <<>>

\* B_Fetch adding to the relevant articles the session already holds.
B_FetchOnTopOfSession ==
    /\ app = "B"
    /\ LET articles == fetch_news_from_rss(feeds)
           is_relevant == ClassifyAll(articles, selected_persona, oracle)
           relevant_articles ==
               KeepRelevant(session.relevant_articles, articles, is_relevant)
           ss == [articles |-> articles, persona |-> selected_persona,
                  relevant_articles |-> relevant_articles]
           r == [kind |-> "fetch", pool |-> articles,
                 persona |-> selected_persona, k |-> num,
                 response |-> <<>>, curated |-> <<>>, marks |-> is_relevant,
                 result |-> relevant_articles,
                 tried |-> ClassifyAllPosts(articles, selected_persona, oracle),
                 raised |-> FALSE]
       IN  /\ session' = ss
           /\ rendered' = DisplayB(ss, selected_persona, num)
           /\ run' = r
           /\ probe' = Recorded(probe, r)
           /\ fetched' = [persona |-> selected_persona, kept |-> relevant_articles]
    /\ UNCHANGED <<app, feeds, oracle, selected_persona, num, cache>>

\* One script run of app2.py with "Fetch & Curate" clicked.
B_Fetch ==
    /\ app = "B"
    /\ LET articles == fetch_news_from_rss(feeds)
           is_relevant == ClassifyAll(articles, selected_persona, oracle)
           relevant_articles == KeepRelevant(<<>>, articles, is_relevant)
           ss == [articles |-> articles, persona |-> selected_persona,
                  relevant_articles |-> relevant_articles]
           r == [kind |-> "fetch", pool |-> articles,
                 persona |-> selected_persona, k |-> num,
                 response |-> <<>>, curated |-> <<>>, marks |-> is_relevant,
                 result |-> relevant_articles,
                 tried |-> ClassifyAllPosts(articles, selected_persona, oracle),
                 raised |-> FALSE]
       IN  /\ session' = ss
           /\ rendered' = DisplayB(ss, selected_persona, num)
           /\ run' = r
           /\ probe' = Recorded(probe, r)
           /\ fetched' = [persona |-> selected_persona, kept |-> relevant_articles]
    /\ UNCHANGED <<app, feeds, oracle, selected_persona, num, cache>>

\* A script run of app2.py after the selectbox changed.
B_SelectPersona(p) ==
    /\ app = "B"
    /\ p # selected_persona
    /\ selected_persona' = p
    /\ rendered' = DisplayB(session, p, num)
    /\ run' = IdleRun
    /\ UNCHANGED <<app, feeds, oracle, num, cache, session, probe, fetched>>

\* A script run of app2.py after the slider moved.
B_SetCount(k) ==
    /\ app = "B"
    /\ k # num
    /\ num' = k
    /\ rendered' = DisplayB(session, selected_persona, k)
    /\ run' = IdleRun
    /\ UNCHANGED <<app, feeds, oracle, selected_persona, cache, session, probe,
                   fetched>>

NextA ==
    \/ A_Curate
    \/ \E p \in PersonasOf("A") : A_SelectPersona(p)
    \/ \E k \in CountsOf("A") : A_SetCount(k)
    \/ A_CacheExpire

NextB ==
    \/ B_Fetch
    \/ \E p \in PersonasOf("B") : B_SelectPersona(p)
    \/ \E k \in CountsOf("B") : B_SetCount(k)

Next == NextA \/ NextB

\* the counts a caller may pass: the slider's, and zero and negative ones
CallCounts == (0 - 2)..MaxCount

NextEngine == \E p \in PersonasOf("A"), k \in CallCounts : CurateCalled(p, k)

\* ------------------------------------------------------- the environments

DIGITS == <<"1", "2", "3", "4", "5", "6", "7", "8", "9">>

Rep(c, n) == [i \in 1..n |-> c]

UpFeed(entries) == [raises |-> FALSE, entries |-> entries]
DownFeed == [raises |-> TRUE, entries |-> <<>>]

\* The feeds of app a: the first two sources serve first and second, the
\* others are reachable and have no entry.
FeedsOf(a, first, second) ==
    [i \in 1..(IF a = "A" THEN Len(AI_NEWS_SOURCES) ELSE Len(RSS_FEEDS)) |->
        IF i = 1 THEN first ELSE IF i = 2 THEN second ELSE UpFeed(<<>>)]

\* A complete entry, the i-th of its feed.
PlainEntry(i) ==
    [key \in {"title", "link", "summary", "published"} |->
        CASE key = "title" -> Str(<<"t", DIGITS[i]>>)
          [] key = "link" -> Str(<<"u", DIGITS[i]>>)
          [] key = "summary" -> Str(<<"s", DIGITS[i]>>)
          [] OTHER -> Str(<<"p">>)]

PlainEntries(n) == [i \in 1..n |-> PlainEntry(i)]

\* Entries with fields missing, empty, marked up, long, or not text.
WithSummary(v) ==
    [key \in {"title", "link", "summary"} |->
        CASE key = "title" -> Str(<<"t">>)
          [] key = "link" -> Str(<<"u">>)
          [] OTHER -> v]

BareEntry == [key \in {} |-> PyNone]
EmptyEntry == [key \in {"title", "link", "summary"} |-> Str(<<>>)]
HtmlEntry == WithSummary(Str(<<"<", "b", ">", "x", "<", "/", "b", ">", "y">>))
LongEntry ==
    WithSummary(Str(<<"<", "b", ">">> \o Rep("a", SummaryLimit)
                    \o <<"<", "/", "b", ">">>))
NoneEntry == WithSummary(PyNone)

EntryKinds == {PlainEntry(1), BareEntry, EmptyEntry, HtmlEntry, LongEntry, NoneEntry}

SeqsUpTo(S, n) == UNION {[1..m -> S] : m \in 0..n}

RichFeeds ==
    {DownFeed, UpFeed(PlainEntries(EntriesPerSource + 1))}
    \cup {UpFeed(es) : es \in SeqsUpTo(EntryKinds, MaxEntries)}

SecondFeeds == {DownFeed, UpFeed(<<>>), UpFeed(PlainEntries(2)), UpFeed(<<NoneEntry>>)}

\* Plan A answers: blocks of labelled lines.
L(label, value) == [label |-> label, value |-> value]

GoodBlock1 ==
    <<L("TITLE", <<"a">>), L("SOURCE", <<"s">>), L("RELEVANCE", <<"r">>),
      L("LINK", <<"u">>)>>
GoodBlock2 == <<L("TITLE", <<"b">>), L("LINK", <<"v">>)>>
NoLinkBlock ==
    <<L("TITLE", <<"c">>), L("SOURCE", <<"s">>), L("RELEVANCE", <<"r">>)>>
EmptyTitleBlock == <<L("TITLE", <<>>), L("LINK", <<"w">>)>>
JunkBlock == <<L("", <<"h", "i">>)>>

BlockKinds == {GoodBlock1, GoodBlock2, NoLinkBlock, EmptyTitleBlock, JunkBlock}

Answers ==
    SeqsUpTo(BlockKinds, MaxBlocks)
    \cup {<<GoodBlock1, GoodBlock2, NoLinkBlock>>,
          <<GoodBlock2, GoodBlock1, GoodBlock2, GoodBlock1>>,
          <<JunkBlock, GoodBlock1, GoodBlock1, NoLinkBlock, GoodBlock2, GoodBlock2>>}

\* Blocks whose values hold a label text, the characters "---", or blanks
\* around them.
LabelInTitleBlock ==
    <<L("TITLE", <<"x", " ">> \o TITLE_LABEL \o <<" ", "y">>), L("LINK", <<"u">>)>>
LabelInLinkBlock ==
    <<L("TITLE", <<"a">>), L("LINK", <<"u", "?">> \o LINK_LABEL \o <<"z">>)>>
DashInLinkBlock ==
    <<L("TITLE", <<"b">>), L("LINK", <<"u">> \o SEPARATOR \o <<"v">>)>>
BlanksBlock ==
    <<L("TITLE", <<" ", "c", " ", "d", " ">>), L("LINK", <<"\t", "w">>)>>

ExtractBlockKinds ==
    {GoodBlock1, LabelInTitleBlock, LabelInLinkBlock, DashInLinkBlock, BlanksBlock}

OracleA(blocks, ports) == [blocks |-> blocks, ports |-> ports]

\* every answer on two healthy ports, and two answers under every behaviour
\* of the two ports
OraclesSelect ==
    {OracleA(bs, <<"answers", "answers">>) : bs \in Answers}
    \cup {OracleA(bs, <<p1, p2>>) :
            bs \in {<<GoodBlock1, GoodBlock2, NoLinkBlock>>, <<NoLinkBlock>>},
            p1 \in PortNames, p2 \in PortNames}

PoolFeedsA ==
    {FeedsOf("A", DownFeed, UpFeed(<<>>)),
     FeedsOf("A", UpFeed(PlainEntries(2)), DownFeed),
     FeedsOf("A", UpFeed(PlainEntries(EntriesPerSource + 1)), UpFeed(PlainEntries(2)))}

\* Plan B replies.
HttpReply(status, json, fields) ==
    [kind |-> "http", status |-> status, body |-> [json |-> json, fields |-> fields]]

TextReply(status, text) ==
    HttpReply(status, "object", [key \in {"response"} |-> Str(text)])

ExceptionReply == [kind |-> "exception", status |-> 0,
                   body |-> [json |-> "invalid", fields |-> BareEntry]]

ReplyYes == TextReply(200, <<"y", "e", "s">>)
ReplyNo == TextReply(200, <<"n", "o">>)

ReplyTexts ==
    {<<>>, <<"y", "e", "s">>, <<"n", "o">>, <<" ", "Y", "E", "S", ".", "\n">>,
     <<"Y", "e", "s", ",", " ", "i", "t", " ", "i", "s">>,
     <<"y", " ", "e", "s">>, <<"N", "o", ".">>,
     <<"R", "e", "l", "e", "v", "a", "n", "t">>,
     <<"n", "o", "t", " ", "r", "e", "l", "e", "v", "a", "n", "t">>,
     <<"r", "e", "l", "e", "v", "a", "n", "c", "e">>,
     <<"e", "y", "e", "s">>}

RichReplies ==
    {TextReply(200, t) : t \in ReplyTexts}
    \cup {TextReply(500, <<"y", "e", "s">>), TextReply(404, <<"r", "e", "l", "e", "v", "a", "n", "t">>),
          TextReply(201, <<"y", "e", "s">>),
          HttpReply(200, "invalid", BareEntry), HttpReply(200, "array", BareEntry),
          HttpReply(200, "object", BareEntry),
          HttpReply(200, "object", [key \in {"response"} |-> PyNone]),
          ExceptionReply}

TitlesOf(n) == {<<"t", DIGITS[i]>> : i \in 1..n}

\* the oracles that answer the n titles with one of replies: the same for
\* every persona, or for the personas after the first with some one reply
OraclesB(n, replies) ==
    {o \in [PersonasOf("B") -> [TitlesOf(n) -> replies]] :
        \A p \in PersonasOf("B") :
            \/ o[p] = o[PERSONAS_B[1]]
            \/ \E r \in replies : \A t \in TitlesOf(n) : o[p][t] = r}

\* the oracles whose answer does not depend on the persona
OraclesAnyPersona(n, replies) ==
    {[p \in PersonasOf("B") |-> f] : f \in [TitlesOf(n) -> replies]}

\* -------------------------------------------------------- specifications

\* The first script run: the widgets at their defaults, nothing fetched.
Start(a, fs, o, recording) ==
    /\ probe = Probe(recording)
    /\ app = a
    /\ feeds = fs
    /\ oracle = o
    /\ selected_persona = (IF a = "A" THEN PERSONAS_A[1] ELSE PERSONAS_B[1])
    /\ num = (IF a = "A" THEN SliderDefaultA ELSE SliderDefaultB)
    /\ cache = NoCache
    /\ session = NoSession
    /\ rendered = <<>>
    /\ run = IdleRun
    /\ fetched = NoFetch

\* Plan A under every answer of the oracle.
InitSelect == \E fs \in PoolFeedsA, o \in OraclesSelect : Start("A", fs, o, FALSE)

SpecSelect == InitSelect /\ [][NextA]_vars

\* Plan B under every yes/no marking of a pool of up to MaxMarked articles.
InitFilter ==
    \E n \in 0..MaxMarked :
        \E o \in OraclesB(n, {ReplyYes, ReplyNo}) :
            Start("B", FeedsOf("B", UpFeed(PlainEntries(n)), DownFeed), o, FALSE)

SpecFilter == InitFilter /\ [][NextB]_vars

\* Plan B under every reply of the oracle to the classification of an article.
InitClassify ==
    \E r1 \in RichReplies, r2 \in {ReplyYes, ExceptionReply} :
        Start("B", FeedsOf("B", UpFeed(PlainEntries(2)), DownFeed),
              [p \in PersonasOf("B") |->
                  [t \in TitlesOf(2) |-> IF t = <<"t", "1">> THEN r1 ELSE r2]],
              FALSE)

SpecClassify == InitClassify /\ [][NextB]_vars

\* Both pool builders under feeds that fail and entries of every kind.
InitPool ==
    \E first \in RichFeeds, second \in SecondFeeds :
        \/ Start("A", FeedsOf("A", first, second),
                 OracleA(<<GoodBlock1>>, <<"answers", "answers">>), FALSE)
        \/ \E o \in OraclesAnyPersona(1, {ReplyYes}) :
                Start("B", FeedsOf("B", first, second), o, FALSE)

SpecPool == InitPool /\ [][Next]_vars

\* The curation engine of Plan A called with any count.
InitEngine ==
    \E fs \in PoolFeedsA :
        \E bs \in {<<>>, <<GoodBlock1, GoodBlock2, NoLinkBlock>>},
           ps \in {<<"answers", "answers">>, <<"raises", "answers">>,
                    <<"raises", "raises">>} :
            Start("A", fs, OracleA(bs, ps), FALSE)

SpecEngine == InitEngine /\ [][NextEngine]_vars

\* Plan A under answers whose values hold label texts and dashes.
InitExtract ==
    \E fs \in PoolFeedsA, bs \in SeqsUpTo(ExtractBlockKinds, MaxBlocks) :
        Start("A", fs, OracleA(bs, <<"answers", "answers">>), FALSE)

SpecExtract == InitExtract /\ [][NextA]_vars

\* What the sources of app2.py serve changes between two script runs: the
\* first source has one entry more or less.
FeedChoices == {FeedsOf("B", UpFeed(PlainEntries(n)), DownFeed) : n \in 1..2}

FeedsChange ==
    /\ app = "B"
    /\ \E fs \in FeedChoices : fs # feeds /\ feeds' = fs
    /\ UNCHANGED <<app, oracle, selected_persona, num, cache, session, rendered,
                   run, probe, fetched>>

NextSession == NextB \/ FeedsChange

\* Plan B while the feeds change, the oracle answering by persona.
InitSession ==
    \E fs \in FeedChoices, o \in OraclesB(2, {ReplyYes, ReplyNo}) :
        Start("B", fs, o, FALSE)

SpecSession == InitSession /\ [][NextSession]_vars

\* Either application under every behaviour of its oracle's endpoints.
InitOracle ==
    \/ \E p1 \in PortNames, p2 \in PortNames :
          Start("A", FeedsOf("A", UpFeed(PlainEntries(2)), DownFeed),
                OracleA(<<GoodBlock1, GoodBlock2, NoLinkBlock>>, <<p1, p2>>), FALSE)
    \/ \E o \in OraclesAnyPersona(2, {ReplyYes, ReplyNo, ExceptionReply}) :
          Start("B", FeedsOf("B", UpFeed(PlainEntries(2)), DownFeed), o, FALSE)

SpecOracle == InitOracle /\ [][Next]_vars

\* Either application, the first curation of the session on record.
Init ==
    \/ \E fs \in PoolFeedsA :
          \E bs \in {<<>>, <<GoodBlock1, GoodBlock2, NoLinkBlock>>,
                      <<GoodBlock2, GoodBlock1, GoodBlock2, GoodBlock1>>},
             ps \in {<<"answers", "answers">>, <<"raises", "answers">>,
                      <<"timeout", "answers">>} :
              Start("A", fs, OracleA(bs, ps), TRUE)
    \/ \E o \in OraclesB(2, {ReplyYes, ReplyNo}) :
          Start("B", FeedsOf("B", UpFeed(PlainEntries(2)), UpFeed(PlainEntries(1))),
                o, TRUE)

Spec == Init /\ [][Next]_vars

\* ------------------------------------------------------------- the claims

\* What an answer means, read off its blocks and not off its text: the value
\* of a label in a block is the trimmed value of the block's last line with
\* that label, and is empty when the block has no such line.
ValueOf(block, label) ==
    LET at == {i \in 1..Len(block) : block[i].label = label}
    IN  IF at = {} THEN <<>>
        ELSE Strip(block[CHOOSE i \in at : \A j \in at : j <= i].value)

ItemOf(block) ==
    [title |-> ValueOf(block, "TITLE"), source |-> ValueOf(block, "SOURCE"),
     relevance |-> ValueOf(block, "RELEVANCE"), link |-> ValueOf(block, "LINK")]

HasTitleAndLink(block) ==
    ValueOf(block, "TITLE") # <<>> /\ ValueOf(block, "LINK") # <<>>

\* the items of the blocks that have a title and a link, in the answer's order
AcceptedBlocks(blocks) ==
    LET items == [i \in 1..Len(blocks) |-> ItemOf(blocks[i])]
        IsWhole(item) == item.title # <<>> /\ item.link # <<>>
    IN  SelectSeq(items, IsWhole)

\* the first k elements of s, k > 0
FirstK(s, k) == [i \in 1..(IF k < Len(s) THEN k ELSE Len(s)) |-> s[i]]

\* no port hands an answer on: each raises, times out, reports an error or
\* prints nothing
NoPortAnswers(o) ==
    \A i \in 1..Len(o.ports) : o.ports[i] \in {"raises", "timeout", "errors", "silent"}

\* the oracle's answer reached curate_articles_for_persona
AnswerDelivered ==
    /\ run.kind = "curate"
    /\ run.response # <<>>
    /\ run.response = RenderBlocks(oracle.blocks)

\* C1: in batch selection, when the oracle call fails entirely (no port
\* answers, a timeout, an empty response) or its response yields no accepted
\* block, the result is exactly the first k articles of the pool, in pool
\* order and unmodified.
C1_FallbackIsFirstK ==
    (/\ run.kind \in {"curate", "empty"}
     /\ run.k > 0
     /\ \/ NoPortAnswers(oracle)
        \/ run.response = <<>>
        \/ AcceptedBlocks(oracle.blocks) = <<>>)
    => /\ run.pool = fetch_real_ai_news(feeds)
       /\ run.result = FirstK(run.pool, run.k)
       /\ rendered = run.result

\* C1 happens: an answer with blocks but none accepted, a pool longer than k.
C1_Witness ==
    /\ AnswerDelivered
    /\ AcceptedBlocks(oracle.blocks) = <<>>
    /\ Len(run.pool) > run.k
    /\ Len(rendered) = run.k
    /\ rendered[1] = run.pool[1]

\* C2: the result of batch selection has at most k entries, and when a block
\* is accepted it is the first k accepted blocks in the oracle's order, with
\* no entry of the pool added.
C2_FirstKAcceptedInOrder ==
    (run.kind = "curate" /\ run.k > 0)
    => /\ Len(run.result) <= run.k
       /\ (AnswerDelivered /\ AcceptedBlocks(oracle.blocks) # <<>>)
            => run.result = FirstK(AcceptedBlocks(oracle.blocks), run.k)

\* C2 happens: more blocks accepted than k, two different ones among them.
C2_Witness ==
    /\ AnswerDelivered
    /\ Len(AcceptedBlocks(oracle.blocks)) > run.k
    /\ Len(run.result) = run.k
    /\ run.result[1] # run.result[2]

\* C3: a block of the response is accepted if and only if its TITLE and its
\* LINK are both non-empty; the other blocks are dropped and the batch goes
\* on: two well-formed blocks and one without a LINK line give, for k = 3,
\* exactly two entries.
C3_AcceptedIffTitleAndLink ==
    AnswerDelivered
    => /\ \A i \in 1..Len(oracle.blocks) :
            (\E j \in 1..Len(run.curated) : run.curated[j] = ItemOf(oracle.blocks[i]))
            <=> HasTitleAndLink(oracle.blocks[i])
       /\ Len(run.curated) =
            Cardinality({i \in 1..Len(oracle.blocks) : HasTitleAndLink(oracle.blocks[i])})
       /\ (oracle.blocks = <<GoodBlock1, GoodBlock2, NoLinkBlock>> /\ run.k = 3)
            => Len(run.result) = 2

\* C3 happens: the scenario of two well-formed blocks and one without a link.
C3_Witness ==
    /\ AnswerDelivered
    /\ oracle.blocks = <<GoodBlock1, GoodBlock2, NoLinkBlock>>
    /\ run.k = 3
    /\ Len(rendered) = 2

\* the replies of the oracle that say yes or relevant, in any case, anywhere
\* in the text
PositiveTexts ==
    {<<"y", "e", "s">>, <<" ", "Y", "E", "S", ".", "\n">>,
     <<"Y", "e", "s", ",", " ", "i", "t", " ", "i", "s">>,
     <<"R", "e", "l", "e", "v", "a", "n", "t">>,
     <<"n", "o", "t", " ", "r", "e", "l", "e", "v", "a", "n", "t">>,
     <<"e", "y", "e", "s">>}

SaysRelevant(reply) ==
    /\ reply.kind = "http"
    /\ reply.status = 200
    /\ reply.body.json = "object"
    /\ DOMAIN reply.body.fields = {"response"}
    /\ reply.body.fields["response"].py = "str"
    /\ reply.body.fields["response"].s \in PositiveTexts

\* the reply the oracle gave for the i-th article of the latest fetch
ReplyGiven(i) == ReplyFor(oracle, run.persona, run.pool[i])

\* C4: the binary test is true exactly when the oracle answered with status
\* 200 and a text that, lowered and trimmed, contains "yes" or "relevant";
\* a transport error, a timeout, another status or a malformed body gives
\* false, and the run goes on.
C4_RelevantIffYesOrRelevant ==
    run.kind = "fetch"
    => /\ Len(run.marks) = Len(run.pool)
       /\ \A i \in 1..Len(run.pool) : run.marks[i] <=> SaysRelevant(ReplyGiven(i))

\* C4 happens: an upper-case yes is taken as relevant next to a call that
\* raised and was taken as not relevant.
C4_Witness ==
    /\ run.kind = "fetch"
    /\ Len(run.pool) = 2
    /\ ReplyGiven(1) = TextReply(200, <<" ", "Y", "E", "S", ".", "\n">>)
    /\ ReplyGiven(2) = ExceptionReply
    /\ run.marks = <<TRUE, FALSE>>

\* the i-th article of the pool was marked relevant by the binary test
MarkedRelevant(article) == SaysRelevant(ReplyFor(oracle, run.persona, article))

\* C5: in filter mode the kept sequence is exactly the subsequence of the
\* pool the binary test marked relevant, in pool order, nothing duplicated or
\* added, and the displayed result is its first k.
C5_KeptIsMarkedSubsequence ==
    run.kind = "fetch"
    => /\ run.pool = fetch_news_from_rss(feeds)
       /\ session.articles = run.pool
       /\ session.relevant_articles = SelectSeq(run.pool, MarkedRelevant)
       /\ rendered = FirstK(session.relevant_articles, num)

\* C5 happens: the first and the third of three articles are kept and one of
\* them is displayed.
C5_Witness ==
    /\ run.kind = "fetch"
    /\ Len(run.pool) = 3
    /\ run.marks = <<TRUE, FALSE, TRUE>>
    /\ session.relevant_articles = <<run.pool[1], run.pool[3]>>
    /\ num = 1
    /\ rendered = <<run.pool[1]>>

\* C6: in both applications, after any sequence of fetches, persona changes
\* and count changes, the items handed to the presentation are never more
\* than the count now requested.
C6_NeverMoreThanK == Len(rendered) <= num

\* C6 happens: more articles are kept than asked for and the count was
\* lowered after the fetch.
C6_Witness ==
    /\ app = "B"
    /\ run.kind = "idle"
    /\ Len(session.relevant_articles) > num
    /\ Len(rendered) = num
    /\ num > 0

\* the latest script run built a pool
PoolBuilt == run.kind \in {"curate", "empty", "fetch"}

SourcesOfApp == IF app = "A" THEN AI_NEWS_SOURCES ELSE RSS_FEEDS

\* the fetch or the processing of the i-th source fails at some point: the
\* parse raises, or one of the entries that are processed has a summary that
\* is no text
SourceFails(i) ==
    \/ feeds[i].raises
    \/ \E j \in 1..Len(feeds[i].entries) :
          /\ j <= EntriesPerSource
          /\ "summary" \in DOMAIN feeds[i].entries[j]
          /\ feeds[i].entries[j]["summary"].py # "str"

\* the articles of the pool that carry the name of the i-th source
ContributionOf(i) ==
    LET FromSource(article) == article.source = SourcesOfApp[i]
    IN  SelectSeq(run.pool, FromSource)

\* what the i-th source gives when it is the only one fetched
AloneContributionOf(i) ==
    IF app = "A" THEN FetchSourceRT(<<>>, feeds[i], SourcesOfApp[i])
    ELSE FetchSourceRss(<<>>, feeds[i], SourcesOfApp[i])

\* C7: a source whose fetch or processing fails at any point contributes no
\* article to the pool, also when it fails after some of its entries were
\* processed; the build goes on, and every other source contributes what it
\* would contribute if no source had failed.
C7_FailingSourceContributesNothing ==
    PoolBuilt
    => \A i \in 1..Len(SourcesOfApp) :
          /\ SourceFails(i) => ContributionOf(i) = <<>>
          /\ ~SourceFails(i) => ContributionOf(i) = AloneContributionOf(i)

\* C8: every article placed in the pool has a non-empty title, a non-empty
\* link and a non-empty source, whichever fields of the raw entry are missing
\* or empty.
C8_NonEmptyTitleLinkSource ==
    PoolBuilt
    => \A i \in 1..Len(run.pool) :
          /\ run.pool[i].title # <<>>
          /\ run.pool[i].link # <<>>
          /\ run.pool[i].source # <<>>

\* the text holds an HTML tag
HasTag(text) == \E i \in 1..Len(text) : IsTagStart(text, i)

\* C9: the summary of every article of the pool is at most 300 characters
\* long and holds no HTML tag.
C9_SummaryShortAndPlain ==
    PoolBuilt
    => \A i \in 1..Len(run.pool) :
          /\ Len(run.pool[i].summary) <= SummaryLimit
          /\ ~HasTag(run.pool[i].summary)

\* C10: a curation with the pool, persona and count of the first curation of
\* the session gives the result the first one gave, whatever was curated in
\* between (the oracle answering the same prompt alike).
C10_SameArgumentsSameResult ==
    (/\ probe.set
     /\ PoolBuilt
     /\ run.pool = probe.pool
     /\ run.persona = probe.persona
     /\ run.k = probe.k)
    => run.result = probe.result

\* C10 happens: the first curation is repeated after a curation of other
\* arguments and gives articles.
C10_Witness ==
    /\ probe.set
    /\ probe.others
    /\ PoolBuilt
    /\ <<run.pool, run.persona, run.k>> = <<probe.pool, probe.persona, probe.k>>
    /\ run.result # <<>>
    /\ run.result = probe.result

\* C11: a call of the curation engine with a count k <= 0 is rejected before
\* any I/O: no oracle call is made for it and no article list is returned.
C11_InvalidCountRejected ==
    (run.kind = "call" /\ run.k <= 0)
    => /\ run.tried = <<>>
       /\ run.raised

\* an endpoint that would hand the oracle's answer on
AbleToAnswer(name) == name \in {"answers", "warns"}

\* an endpoint the attempt on which fails to connect or reports an error
FailsToConnect(name) == name \in {"raises", "errors"}

\* C12: every oracle request, of batch selection and of the binary test,
\* first attempts the primary endpoint and, when that attempt fails to connect
\* or reports an error, attempts the secondary endpoint; it yields the
\* oracle's answer whenever the primary endpoint is able to answer, or fails
\* in one of these ways while the secondary is able to answer (a primary that
\* times out is left to C15).
C12_EndpointFallback ==
    /\ (run.kind \in {"curate", "call"} /\ run.tried # <<>>)
        => /\ run.tried[1][1] = PORTS[1]
           /\ FailsToConnect(oracle.ports[1]) => run.tried[1] = PORTS
           /\ \/ AbleToAnswer(oracle.ports[1])
              \/ FailsToConnect(oracle.ports[1]) /\ AbleToAnswer(oracle.ports[2])
              => run.response = RenderBlocks(oracle.blocks)
    /\ run.kind = "fetch"
        => \A i \in 1..Len(run.pool) :
              /\ run.tried[i][1] = CLASSIFY_PORT
              /\ ReplyGiven(i).kind = "exception" => Len(run.tried[i]) = 2
              /\ ReplyGiven(i).kind # "exception"
                    => (run.marks[i] <=> SaysRelevant(ReplyGiven(i)))

\* C13: normalization strips the HTML tags of the raw summary before it
\* truncates: the summary of an article is the first 300 characters of the
\* tag-stripped text of its entry's summary, and not the tag-stripped form of
\* the first 300 raw characters.
C13_StripBeforeTruncate ==
    PoolBuilt
    => \A i \in 1..Len(SourcesOfApp) :
          ~SourceFails(i)
          => LET entries == FirstK(feeds[i].entries, EntriesPerSource)
                 articles == ContributionOf(i)
             IN  /\ Len(articles) = Len(entries)
                 /\ \A j \in 1..Len(articles) :
                       "summary" \in DOMAIN entries[j]
                       => articles[j].summary =
                            FirstK(get_text(entries[j]["summary"].s), SummaryLimit)

\* the first at most 5 entries of the i-th source, normalized, in entry order
FirstEntriesOf(i) ==
    LET entries == FirstK(feeds[i].entries, EntriesPerSource)
    IN  [j \in 1..Len(entries) |->
            IF app = "A" THEN ArticleRT(entries[j], SourcesOfApp[i]).article
            ELSE ArticleRss(entries[j], SourcesOfApp[i]).article]

\* the concatenation, from the i-th source on, of what the successful sources
\* give
RECURSIVE SuccessfulFrom(_)
SuccessfulFrom(i) ==
    IF i > Len(SourcesOfApp) THEN <<>>
    ELSE (IF SourceFails(i) THEN <<>> ELSE FirstEntriesOf(i)) \o SuccessfulFrom(i + 1)

\* C14: the pool is the concatenation, in source-configuration order, of the
\* first at most 5 entries of each successful source, in the source's entry
\* order; no source contributes more than 5 articles and the pool never holds
\* more than 5 times the number of configured sources.
C14_PoolIsConcatenation ==
    PoolBuilt
    => /\ run.pool = SuccessfulFrom(1)
       /\ \A i \in 1..Len(SourcesOfApp) : Len(ContributionOf(i)) <= EntriesPerSource
       /\ Len(run.pool) <= EntriesPerSource * Len(SourcesOfApp)

\* how the endpoint on a port of PORTS behaves
BehaviourAt(port) == oracle.ports[CHOOSE i \in 1..Len(PORTS) : PORTS[i] = port]

\* C15: in batch selection, once an oracle call exceeds the timeout ceiling
\* it is abandoned and no further attempt is made for the request, on the same
\* or on the other endpoint; the request completes with the fallback result,
\* the first k articles of the pool.
C15_TimeoutAbandons ==
    (/\ run.kind = "curate"
     /\ run.k > 0
     /\ \E j \in 1..Len(run.tried[1]) : BehaviourAt(run.tried[1][j]) = "timeout")
    => /\ \A j \in 1..Len(run.tried[1]) :
            BehaviourAt(run.tried[1][j]) = "timeout" => j = Len(run.tried[1])
       /\ \A j \in 1..Len(run.tried[1]) : \A l \in 1..Len(run.tried[1]) :
            run.tried[1][j] = run.tried[1][l] => j = l
       /\ run.response = <<>>
       /\ run.result = FirstK(run.pool, run.k)
       /\ rendered = run.result

\* C15 happens: the first port times out while the second would have
\* answered with accepted blocks; it is not tried and the pool's first k
\* articles are shown.
C15_Witness ==
    /\ run.kind = "curate"
    /\ oracle.ports = <<"timeout", "answers">>
    /\ AcceptedBlocks(oracle.blocks) # <<>>
    /\ run.tried = << <<PORTS[1]>> >>
    /\ Len(run.pool) > run.k
    /\ Len(rendered) = run.k
    /\ rendered[1] = run.pool[1]

\* C16: the response is split into blocks only at separator lines, and the
\* value of a labelled line is the line with only its leading label removed,
\* trimmed: a later occurrence of a label text or of "---" inside a value is
\* kept as it is. Every block of the answer that has a title and a link then
\* gives one item, with the values the block's lines carry.
C16_OnlyLeadingLabelRemoved ==
    AnswerDelivered => run.curated = AcceptedBlocks(oracle.blocks)

\* the articles of the pool the feeds give now that the binary test marks
\* relevant to the persona
KeptNowFor(persona) ==
    LET Marked(article) == SaysRelevant(ReplyFor(oracle, persona, article))
    IN  SelectSeq(fetch_news_from_rss(feeds), Marked)

\* C17: in app2, after any sequence of Fetch & Curate clicks, persona changes
\* and count changes, the curated articles that are rendered are those kept by
\* the most recent Fetch & Curate run, and that run classified them for the
\* persona now selected: what was classified for another persona is never
\* shown under the current one.
C17_RenderedFromLatestFetch ==
    (app = "B" /\ rendered # <<>>)
    => /\ fetched.persona = selected_persona
       /\ rendered = FirstK(fetched.kept, num)
       /\ \A i \in 1..Len(rendered) :
            SaysRelevant(ReplyFor(oracle, selected_persona, rendered[i]))

\* C17 happens: after fetches for two personas and a change of the feeds, the
\* persona of the latest fetch is selected again and its articles are shown,
\* which are not those a fetch would keep now.
C17_Witness ==
    /\ app = "B"
    /\ run.kind = "idle"
    /\ rendered # <<>>
    /\ selected_persona = PERSONAS_B[2]
    /\ fetched.persona = selected_persona
    /\ fetched.kept # KeptNowFor(selected_persona)
    /\ KeptNowFor(PERSONAS_B[1]) # KeptNowFor(PERSONAS_B[2])

====
